---- MODULE Spec2Model ----
(***************************************************************************)
(* Model of pdf_chapter_extractor.py: sanitize_filename,                   *)
(* find_chapter_bookmarks, get_available_bookmark_levels and one run of    *)
(* extract_chapters_from_pdf.                                              *)
(*                                                                         *)
(* Strings are sequences of one-character strings.  An outline is a        *)
(* sequence of items; an item is a Destination record or a list record     *)
(* (a Python list of sub-bookmarks).  What reader.get_destination_page_    *)
(* number does for a Destination is a field of the Destination: it         *)
(* returns a page number ("page"), returns None ("none") or raises         *)
(* ("raise").                                                              *)
(***************************************************************************)
EXTENDS Integers, Sequences, FiniteSets, TLC

VARIABLES
    outline,          \* reader.outline
    chapter_level,    \* the chapter_level argument
    num_pages_total,  \* len(reader.pages)
    pc,               \* position in extract_chapters_from_pdf / sanitize call
    chapter_starts,   \* the chapter_starts list
    available_levels, \* the available_levels set (line 97)
    i,                \* loop index of line 125 (0-based)
    end_page_idx,     \* end_page_idx of the current iteration
    page_num,         \* loop index of line 154
    failed_pages,     \* the pages named in the "Error adding page" lines
    writer,           \* writer.pages, as the source page numbers added
    files,            \* the files written, in the order of writing
    stdout,           \* the lines printed, by kind
    name,             \* the argument of a sanitize_filename call
    ret               \* the value it returned

vars == <<outline, chapter_level, num_pages_total, pc, chapter_starts,
          available_levels, i, end_page_idx, page_num, failed_pages,
          writer, files, stdout, name, ret>>

\* ---------------------------------------------------------------- bounds
MaxNodes == 3      \* outline items (Destinations and lists) in an outline
MaxDepth == 2      \* nesting of lists below the root
MaxPages == 2      \* pages of the document; page numbers are -1..MaxPages
MaxNameLen == 3    \* characters of a title given to sanitize_filename

\* ------------------------------------------------------------- constants
NameLimit == 150   \* name[:150]

Range(s) == {s[k] : k \in 1..Len(s)}

Min(a, b) == IF a < b THEN a ELSE b

\* ------------------------------------------------------ sanitize_filename
Disallowed == {"<", ">", ":", "\"", "/", "\\", "|", "?", "*"}
Whitespace == {" ", "\t"}

\* re.sub(r'[<>:"/\\|?*]', '_', name)
ReplaceInvalid(s) ==
    [k \in 1..Len(s) |-> IF s[k] \in Disallowed THEN "_" ELSE s[k]]

\* re.sub(r'\s+', ' ', name): every maximal run of whitespace becomes " "
RECURSIVE CollapseSpaces(_)
CollapseSpaces(s) ==
    IF s = <<>> THEN <<>>
    ELSE IF s[1] \in Whitespace
         THEN IF Len(s) > 1 /\ s[2] \in Whitespace
              THEN CollapseSpaces(Tail(s))
              ELSE <<" ">> \o CollapseSpaces(Tail(s))
         ELSE <<s[1]>> \o CollapseSpaces(Tail(s))

\* str.strip()
RECURSIVE LStrip(_)
LStrip(s) ==
    IF s # <<>> /\ s[1] \in Whitespace THEN LStrip(Tail(s)) ELSE s

RECURSIVE RStrip(_)
RStrip(s) ==
    IF s # <<>> /\ s[Len(s)] \in Whitespace
    THEN RStrip(SubSeq(s, 1, Len(s) - 1)) ELSE s

Strip(s) == RStrip(LStrip(s))

sanitize_filename(nm) ==
    IF nm = <<>> THEN <<"u","n","t","i","t","l","e","d">>
    ELSE LET n1 == ReplaceInvalid(nm)
             n2 == Strip(CollapseSpaces(n1))
             n3 == SubSeq(n2, 1, Min(Len(n2), NameLimit))
         IN IF n3 = <<>>
            THEN <<"u","n","t","i","t","l","e","d","_",
                   "c","h","a","p","t","e","r">>
            ELSE n3

\* ------------------------------------------------------- outline items
IsList(item) == item.kind = "list"

ListItem(items) == [kind |-> "list", items |-> items]

\* variant: a Destination above the target level is collected as well
\* (line 37 with <= for ==)
RECURSIVE find_chapter_bookmarks_UpTo(_, _, _)
find_chapter_bookmarks_UpTo(outline_items, target_level, current_level) ==
    LET RECURSIVE Loop(_, _)
        Loop(k, chapters) ==
            IF k > Len(outline_items) THEN chapters
            ELSE LET item == outline_items[k] IN
                 IF IsList(item)
                 THEN IF current_level < target_level
                      THEN Loop(k + 1, chapters \o
                                find_chapter_bookmarks_UpTo(item.items,
                                    target_level, current_level + 1))
                      ELSE Loop(k + 1, chapters)
                 ELSE IF current_level <= target_level
                      THEN IF item.res = "page"
                           THEN Loop(k + 1, Append(chapters,
                                    [title |-> item.title,
                                     start_page |-> item.page,
                                     level |-> current_level]))
                           ELSE Loop(k + 1, chapters)
                      ELSE Loop(k + 1, chapters)
    IN Loop(1, <<>>)

\* ------------------------------------------------ find_chapter_bookmarks
RECURSIVE find_chapter_bookmarks(_, _, _)
find_chapter_bookmarks(outline_items, target_level, current_level) ==
    LET RECURSIVE Loop(_, _)
        Loop(k, chapters) ==
            IF k > Len(outline_items) THEN chapters
            ELSE LET item == outline_items[k] IN
                 IF IsList(item)
                 THEN IF current_level < target_level
                      THEN Loop(k + 1, chapters \o
                                find_chapter_bookmarks(item.items,
                                    target_level, current_level + 1))
                      ELSE Loop(k + 1, chapters)
                 ELSE IF current_level = target_level
                      THEN IF item.res = "page"
                           THEN Loop(k + 1, Append(chapters,
                                    [title |-> item.title,
                                     start_page |-> item.page,
                                     level |-> current_level]))
                           ELSE Loop(k + 1, chapters)
                      ELSE Loop(k + 1, chapters)
    IN Loop(1, <<>>)

\* the warnings find_chapter_bookmarks prints (line 50), in order
RECURSIVE find_chapter_warnings(_, _, _)
find_chapter_warnings(outline_items, target_level, current_level) ==
    LET RECURSIVE Loop(_, _)
        Loop(k, out) ==
            IF k > Len(outline_items) THEN out
            ELSE LET item == outline_items[k] IN
                 IF IsList(item)
                 THEN IF current_level < target_level
                      THEN Loop(k + 1, out \o
                                find_chapter_warnings(item.items,
                                    target_level, current_level + 1))
                      ELSE Loop(k + 1, out)
                 ELSE IF current_level = target_level /\ item.res = "raise"
                      THEN Loop(k + 1, Append(out, "Warning: Could not get page"))
                      ELSE Loop(k + 1, out)
    IN Loop(1, <<>>)

\* variant: the recursion of line 60 does not count the list it enters
RECURSIVE get_available_bookmark_levels_Flat(_, _)
get_available_bookmark_levels_Flat(outline_items, current_level) ==
    LET RECURSIVE Loop(_, _)
        Loop(k, levels) ==
            IF k > Len(outline_items) THEN levels
            ELSE LET item == outline_items[k] IN
                 IF IsList(item)
                 THEN Loop(k + 1, levels \cup
                           get_available_bookmark_levels_Flat(item.items,
                               current_level))
                 ELSE Loop(k + 1, levels \cup {current_level})
    IN Loop(1, {})

\* ----------------------------------------- get_available_bookmark_levels
RECURSIVE get_available_bookmark_levels(_, _)
get_available_bookmark_levels(outline_items, current_level) ==
    LET RECURSIVE Loop(_, _)
        Loop(k, levels) ==
            IF k > Len(outline_items) THEN levels
            ELSE LET item == outline_items[k] IN
                 IF IsList(item)
                 THEN Loop(k + 1, levels \cup
                           get_available_bookmark_levels(item.items,
                               current_level + 1))
                 ELSE Loop(k + 1, levels \cup {current_level})
    IN Loop(1, {})

\* --------------------------------------------------- range resolution
\* chapter_starts.sort(key=lambda x: x['start_page']): list.sort is stable,
\* an entry goes after every entry whose key is not greater
\* variant: an unstable sort, an entry goes before the entries of its key
InsertByStartPage_Unstable(sorted, ch) ==
    LET n == Cardinality({k \in 1..Len(sorted) :
                             sorted[k].start_page < ch.start_page})
    IN SubSeq(sorted, 1, n) \o <<ch>> \o SubSeq(sorted, n + 1, Len(sorted))

InsertByStartPage(sorted, ch) ==
    LET n == Cardinality({k \in 1..Len(sorted) :
                             sorted[k].start_page <= ch.start_page})
    IN SubSeq(sorted, 1, n) \o <<ch>> \o SubSeq(sorted, n + 1, Len(sorted))

RECURSIVE SortFrom(_, _, _)
SortFrom(chs, k, sorted) ==
    IF k > Len(chs) THEN sorted
    ELSE SortFrom(chs, k + 1, InsertByStartPage(sorted, chs[k]))

SortByStartPage(chs) == SortFrom(chs, 1, <<>>)

\* variant: line 115 is missing, no page is ever recorded as seen
RECURSIVE UniqueFrom_NothingSeen(_, _, _, _)
UniqueFrom_NothingSeen(chs, k, unique_chapter_starts, seen_pages) ==
    IF k > Len(chs) THEN unique_chapter_starts
    ELSE IF chs[k].start_page \notin seen_pages
         THEN UniqueFrom_NothingSeen(chs, k + 1,
                         Append(unique_chapter_starts, chs[k]), seen_pages)
         ELSE UniqueFrom_NothingSeen(chs, k + 1, unique_chapter_starts,
                         seen_pages)

\* lines 110-116: keep the first entry seen for each start_page
RECURSIVE UniqueFrom(_, _, _, _)
UniqueFrom(chs, k, unique_chapter_starts, seen_pages) ==
    IF k > Len(chs) THEN unique_chapter_starts
    ELSE IF chs[k].start_page \notin seen_pages
         THEN UniqueFrom(chs, k + 1, Append(unique_chapter_starts, chs[k]),
                         seen_pages \cup {chs[k].start_page})
         ELSE UniqueFrom(chs, k + 1, unique_chapter_starts, seen_pages)

UniqueChapterStarts(chs) == UniqueFrom(chs, 1, <<>>, {})

\* variant: the end page is the next start page itself
EndPageIdx_NextStart(chs, idx, total) ==
    IF idx + 1 < Len(chs) THEN chs[idx + 2].start_page
    ELSE total - 1

\* lines 130-136, with the 0-based index idx of the loop
EndPageIdx(chs, idx, total) ==
    IF idx + 1 < Len(chs) THEN chs[idx + 2].start_page - 1
    ELSE total - 1

\* line 139
EmptyRange(start_page_idx, end_idx) == start_page_idx > end_idx

\* variant: only the start page is checked against the document
ValidIndices_StartOnly(start_page_idx, end_idx, total) ==
    0 <= start_page_idx /\ start_page_idx < total

\* line 146
ValidIndices(start_page_idx, end_idx, total) ==
    /\ 0 <= start_page_idx /\ start_page_idx < total
    /\ 0 <= end_idx /\ end_idx < total

\* reader.pages[n]: a negative index counts from the end
SourcePage(n, total) == IF n < 0 THEN n + total ELSE n

\* reader.pages[n] is a page of the document (no IndexError)
HasPage(n, total) == SourcePage(n, total) \in 0..(total - 1)

\* ------------------------------------------------------ output filename
Digits == <<"0", "1", "2", "3", "4", "5", "6", "7", "8", "9">>

RECURSIVE Decimal(_)
Decimal(n) ==
    IF n < 10 THEN <<Digits[n + 1]>>
    ELSE Decimal(n \div 10) \o <<Digits[(n % 10) + 1]>>

\* f"{n:03d}" for n >= 0
Format03d(n) ==
    LET d == Decimal(n)
    IN [k \in 1..(3 - Min(3, Len(d))) |-> "0"] \o d

\* variant: the index counts the files written so far
OutputIndex_FilesWritten(idx) == Len(files) + 1

\* the index of line 167
OutputIndex(idx) == idx + 1

\* f"{i+1:03d}_{safe_file_title}.pdf"
OutputFilename(idx, safe_file_title) ==
    Format03d(OutputIndex(idx)) \o <<"_">> \o safe_file_title
        \o <<".", "p", "d", "f">>

\* ---------------------------------------------------------------- inputs
Titles == << <<"A">>, <<"/">>, <<" ", "B">>, <<>>, <<"C", "?">> >>

TitleOf(id) == Titles[((id - 1) % Len(Titles)) + 1]

\* the Destinations that can be the id-th item of an outline
Destinations(id) ==
    {[kind |-> "Destination", title |-> TitleOf(id), res |-> "page",
      page |-> p] : p \in -1..MaxPages}
    \cup {[kind |-> "Destination", title |-> TitleOf(id), res |-> r,
           page |-> 0] : r \in {"none", "raise"}}

\* the item sequences of exactly n items in all, nested at most d deep,
\* the items numbered off+1, off+2, ... in depth-first order
RECURSIVE Forest(_, _, _)
Forest(n, d, off) ==
    IF n = 0 THEN {<<>>}
    ELSE UNION {
           LET firsts ==
                 IF k = 1
                 THEN Destinations(off + 1)
                      \cup (IF d > 0 THEN {ListItem(<<>>)} ELSE {})
                 ELSE IF d > 0
                      THEN {ListItem(f) : f \in Forest(k - 1, d - 1, off + 1)}
                      ELSE {}
           IN {<<it>> \o rest : it \in firsts,
                                rest \in Forest(n - k, d, off + k)}
           : k \in 1..n}

Outlines == UNION {Forest(n, MaxDepth, 0) : n \in 0..MaxNodes}

Levels == -1..(MaxDepth + 1)

Alphabet == Disallowed \cup Whitespace \cup {"a", "_"}

Names == UNION {[1..n -> Alphabet] : n \in 0..MaxNameLen}

\* ------------------------------------------- extract_chapters_from_pdf
Init ==
    /\ outline \in Outlines
    /\ chapter_level \in Levels
    /\ num_pages_total \in 0..MaxPages
    /\ failed_pages = {}
    /\ pc = "start"
    /\ chapter_starts = <<>>
    /\ available_levels = {}
    /\ i = 0
    /\ end_page_idx = 0
    /\ page_num = 0
    /\ writer = <<>>
    /\ files = <<>>
    /\ stdout = <<>>
    /\ name = <<>>
    /\ ret = <<>>

\* lines 76-78: the input file does not exist
FileNotFound ==
    /\ pc = "start"
    /\ stdout' = Append(stdout, "Error: PDF file not found")
    /\ pc' = "done"
    /\ UNCHANGED <<outline, chapter_level, num_pages_total, failed_pages,
                   chapter_starts, available_levels, i, end_page_idx,
                   page_num, writer, files, name, ret>>

\* lines 80-87: PdfReader raises
ParseError ==
    /\ pc = "start"
    /\ stdout' = stdout \o <<"Processing", "Error opening or parsing PDF">>
    /\ pc' = "done"
    /\ UNCHANGED <<outline, chapter_level, num_pages_total, failed_pages,
                   chapter_starts, available_levels, i, end_page_idx,
                   page_num, writer, files, name, ret>>

\* lines 80-91: the document is read; without an outline the run ends
OpenPdf ==
    /\ pc = "start"
    /\ IF outline = <<>>
       THEN /\ stdout' = stdout \o <<"Processing", "No bookmarks (outline) found">>
            /\ pc' = "done"
       ELSE /\ stdout' = Append(stdout, "Processing")
            /\ pc' = "find"
    /\ UNCHANGED <<outline, chapter_level, num_pages_total, failed_pages,
                   chapter_starts, available_levels, i, end_page_idx,
                   page_num, writer, files, name, ret>>

\* line 94
FindBookmarks ==
    /\ pc = "find"
    /\ chapter_starts' = find_chapter_bookmarks(outline, chapter_level, 0)
    /\ stdout' = stdout \o find_chapter_warnings(outline, chapter_level, 0)
    /\ pc' = "found"
    /\ UNCHANGED <<outline, chapter_level, num_pages_total, failed_pages,
                   available_levels, i, end_page_idx, page_num, writer, files,
                   name, ret>>

\* lines 96-103
NoBookmarks ==
    /\ pc = "found"
    /\ chapter_starts = <<>>
    /\ available_levels' = get_available_bookmark_levels(outline, 0)
    /\ stdout' = stdout \o <<"No bookmarks found at level",
                    IF available_levels' # {}
                    THEN "Bookmarks found at levels"
                    ELSE "No page-linking bookmarks found">>
    /\ pc' = "done"
    /\ UNCHANGED <<outline, chapter_level, num_pages_total, failed_pages,
                   chapter_starts, i, end_page_idx, page_num, writer, files,
                   name, ret>>

\* line 106
SortChapters ==
    /\ pc = "found"
    /\ chapter_starts # <<>>
    /\ chapter_starts' = SortByStartPage(chapter_starts)
    /\ pc' = "sorted"
    /\ UNCHANGED <<outline, chapter_level, num_pages_total, failed_pages,
                   available_levels, i, end_page_idx, page_num, writer, files,
                   stdout, name, ret>>

\* lines 110-123
Deduplicate ==
    /\ pc = "sorted"
    /\ chapter_starts' = UniqueChapterStarts(chapter_starts)
    /\ IF chapter_starts' = <<>>
       THEN /\ stdout' = Append(stdout, "No valid chapter starting points")
            /\ pc' = "done"
       ELSE /\ stdout' = Append(stdout, "Found potential chapters")
            /\ pc' = "loop"
    /\ i' = 0
    /\ UNCHANGED <<outline, chapter_level, num_pages_total, failed_pages,
                   available_levels, end_page_idx, page_num, writer, files,
                   name, ret>>

\* lines 125-136: the next chapter and its end page
ComputeRange ==
    /\ pc = "loop"
    /\ i < Len(chapter_starts)
    /\ end_page_idx' = EndPageIdx(chapter_starts, i, num_pages_total)
    /\ pc' = "range"
    /\ UNCHANGED <<outline, chapter_level, num_pages_total, failed_pages,
                   chapter_starts, available_levels, i, page_num, writer,
                   files, stdout, name, ret>>

\* lines 138-153: the two sanity checks, then a fresh PdfWriter
CheckRange ==
    /\ pc = "range"
    /\ LET start_page_idx == chapter_starts[i + 1].start_page IN
       IF EmptyRange(start_page_idx, end_page_idx)
       THEN /\ stdout' = Append(stdout, "Skipping chapter: end before start")
            /\ i' = i + 1
            /\ pc' = "loop"
            /\ UNCHANGED <<writer, page_num>>
       ELSE IF ~ValidIndices(start_page_idx, end_page_idx, num_pages_total)
       THEN /\ stdout' = Append(stdout, "Skipping chapter: invalid page range")
            /\ i' = i + 1
            /\ pc' = "loop"
            /\ UNCHANGED <<writer, page_num>>
       ELSE /\ stdout' = Append(stdout, "Extracting")
            /\ writer' = <<>>
            /\ page_num' = start_page_idx
            /\ pc' = "copy"
            /\ UNCHANGED i
    /\ UNCHANGED <<outline, chapter_level, num_pages_total, failed_pages,
                   chapter_starts, available_levels, end_page_idx, files,
                   name, ret>>

\* lines 154-159: one page; add_page succeeds, or reader.pages[page_num] or
\* add_page raises and the page is skipped
AddPage ==
    /\ pc = "copy"
    /\ page_num <= end_page_idx
    /\ \E raises \in BOOLEAN :
         IF HasPage(page_num, num_pages_total) /\ ~raises
         THEN /\ writer' = Append(writer, SourcePage(page_num, num_pages_total))
              /\ UNCHANGED <<stdout, failed_pages>>
         ELSE /\ stdout' = Append(stdout, "Error adding page")
              /\ failed_pages' = failed_pages \cup {page_num}
              /\ UNCHANGED writer
    /\ page_num' = page_num + 1
    /\ UNCHANGED <<outline, chapter_level, num_pages_total, chapter_starts,
                   available_levels, i, end_page_idx, files, pc, name, ret>>

\* lines 161-163
CheckWriter ==
    /\ pc = "copy"
    /\ page_num > end_page_idx
    /\ IF writer = <<>>
       THEN /\ stdout' = Append(stdout, "Skipping chapter: no pages")
            /\ i' = i + 1
            /\ pc' = "loop"
       ELSE /\ pc' = "save"
            /\ UNCHANGED <<stdout, i>>
    /\ UNCHANGED <<outline, chapter_level, num_pages_total, failed_pages,
                   chapter_starts, available_levels, end_page_idx, page_num,
                   writer, files, name, ret>>

\* variant: no try around the write, a failing save ends the run
SaveChapter_Uncaught ==
    /\ pc = "save"
    /\ LET output_filename ==
             OutputFilename(i, sanitize_filename(chapter_starts[i + 1].title))
       IN \E saved \in BOOLEAN :
            IF saved
            THEN /\ files' = Append(files, [filename |-> output_filename,
                                            pages |-> writer])
                 /\ stdout' = Append(stdout, "Successfully saved")
                 /\ i' = i + 1
                 /\ pc' = "loop"
            ELSE /\ pc' = "raised"
                 /\ UNCHANGED <<files, stdout, i>>
    /\ UNCHANGED <<outline, chapter_level, num_pages_total, failed_pages,
                   chapter_starts, available_levels, end_page_idx, page_num,
                   writer, name, ret>>

\* lines 165-175: the file is written, or open/write raises
SaveChapter ==
    /\ pc = "save"
    /\ LET output_filename ==
             OutputFilename(i, sanitize_filename(chapter_starts[i + 1].title))
       IN \E saved \in BOOLEAN :
            IF saved
            THEN /\ files' = Append(files, [filename |-> output_filename,
                                            pages |-> writer])
                 /\ stdout' = Append(stdout, "Successfully saved")
            ELSE /\ stdout' = Append(stdout, "Error saving")
                 /\ UNCHANGED files
    /\ i' = i + 1
    /\ pc' = "loop"
    /\ UNCHANGED <<outline, chapter_level, num_pages_total, failed_pages,
                   chapter_starts, available_levels, end_page_idx, page_num,
                   writer, name, ret>>

\* line 177
Finish ==
    /\ pc = "loop"
    /\ i >= Len(chapter_starts)
    /\ stdout' = Append(stdout, "Extraction complete.")
    /\ pc' = "done"
    /\ UNCHANGED <<outline, chapter_level, num_pages_total, failed_pages,
                   chapter_starts, available_levels, i, end_page_idx,
                   page_num, writer, files, name, ret>>

Next ==
    \/ FileNotFound
    \/ ParseError
    \/ OpenPdf
    \/ FindBookmarks
    \/ NoBookmarks
    \/ SortChapters
    \/ Deduplicate
    \/ ComputeRange
    \/ CheckRange
    \/ AddPage
    \/ CheckWriter
    \/ SaveChapter
    \/ Finish

Spec == Init /\ [][Next]_vars

\* the run is sequential code: a step that can be taken is taken
FairSpec == Spec /\ WF_vars(Next)

\* -------------------------------------------- a call of sanitize_filename
SanInit ==
    /\ name \in Names
    /\ ret = <<>>
    /\ pc = "call"
    /\ outline = <<>>
    /\ chapter_level = 0
    /\ num_pages_total = 0
    /\ failed_pages = {}
    /\ chapter_starts = <<>>
    /\ available_levels = {}
    /\ i = 0
    /\ end_page_idx = 0
    /\ page_num = 0
    /\ writer = <<>>
    /\ files = <<>>
    /\ stdout = <<>>

Sanitize ==
    /\ pc = "call"
    /\ ret' = sanitize_filename(name)
    /\ pc' = "returned"
    /\ UNCHANGED <<outline, chapter_level, num_pages_total, failed_pages,
                   chapter_starts, available_levels, i, end_page_idx,
                   page_num, writer, files, stdout, name>>

SanNext == Sanitize

SanSpec == SanInit /\ [][SanNext]_vars

\* ================================================================ claims
\* the Destinations of an outline in depth-first order, each with the
\* number of lists it is nested in
RECURSIVE Leaves(_, _)
Leaves(items, depth) ==
    IF items = <<>> THEN <<>>
    ELSE (IF Head(items).kind = "list"
          THEN Leaves(Head(items).items, depth + 1)
          ELSE <<[dest |-> Head(items), depth |-> depth]>>)
         \o Leaves(Tail(items), depth)

LeafDepths(items) == {l.depth : l \in Range(Leaves(items, 0))}

Printed(line) == line \in Range(stdout)

\* the deduplicated list is in place (line 116 was passed)
AfterDedup == Printed("Found potential chapters")

\* what the walker returned in this run
RawStarts == find_chapter_bookmarks(outline, chapter_level, 0)

DigitValue(c) == CHOOSE d \in 0..9 : Digits[d + 1] = c

\* the number a filename starts with
RECURSIVE PrefixFrom(_, _, _)
PrefixFrom(fname, k, acc) ==
    IF k <= Len(fname) /\ fname[k] \in Range(Digits)
    THEN PrefixFrom(fname, k + 1, 10 * acc + DigitValue(fname[k]))
    ELSE acc

NumericPrefix(fname) == PrefixFrom(fname, 1, 0)

\* the end page of the entry at 1-based position j of the deduplicated list
EndOf(j) ==
    IF j < Len(chapter_starts) THEN chapter_starts[j + 1].start_page - 1
    ELSE num_pages_total - 1

\* C1 (as stated): the k-th file written carries the numeric prefix k.
C1_KthFileHasIndexK ==
    \A k \in 1..Len(files) : NumericPrefix(files[k].filename) = k

\* C1 (amended): the numeric prefix of a written file is the 1-based
\* position of its chapter among the deduplicated chapter starts, skipped
\* ones counted: it is the number of deduplicated starts that are not after
\* the file's first page; prefixes grow along the files written.
C1_IndexIsPositionAmongStarts ==
    /\ \A k \in 1..Len(files) :
         /\ files[k].pages # <<>>
         /\ NumericPrefix(files[k].filename) =
              Cardinality({j \in 1..Len(chapter_starts) :
                  chapter_starts[j].start_page <= files[k].pages[1]})
    /\ \A k \in 1..(Len(files) - 1) :
         NumericPrefix(files[k].filename) < NumericPrefix(files[k + 1].filename)

\* a file was written after an earlier chapter was skipped
C1_Witness ==
    /\ Len(files) >= 1
    /\ NumericPrefix(files[1].filename) = 2
    /\ Printed("Skipping chapter: invalid page range")

\* C2: the end page computed for the entry at index i is the next entry's
\* start page minus one, and total_pages - 1 for the last entry.
C2_EndPage ==
    pc = "range" =>
        /\ i + 1 \in 1..Len(chapter_starts)
        /\ (i + 1 < Len(chapter_starts)
              => end_page_idx = chapter_starts[i + 2].start_page - 1)
        /\ (i + 1 = Len(chapter_starts)
              => end_page_idx = num_pages_total - 1)

\* both cases in one run: the last of three entries has its end computed
C2_Witness ==
    /\ pc = "range"
    /\ Len(chapter_starts) = 3
    /\ i = 2
    /\ end_page_idx = num_pages_total - 1
    /\ chapter_starts[1].start_page + 1 < chapter_starts[2].start_page

\* C3: after sort and deduplication the start pages are strictly increasing.
C3_StrictlyIncreasing ==
    AfterDedup =>
        \A a, b \in 1..Len(chapter_starts) :
            a < b => chapter_starts[a].start_page < chapter_starts[b].start_page

\* the walker returned three entries out of order, two on the same page
C3_Witness ==
    /\ AfterDedup
    /\ Len(RawStarts) = 3
    /\ Len(chapter_starts) = 2
    /\ RawStarts[1].start_page > RawStarts[3].start_page

\* C4: the walker returns, in depth-first order, one record for each
\* Destination at depth target_level that resolves to a page, and nothing
\* else.
C4_WalkerResult ==
    pc = "found" =>
        LET AtLevel(l) == l.depth = chapter_level /\ l.dest.res = "page"
            hits == SelectSeq(Leaves(outline, 0), AtLevel)
        IN chapter_starts =
             [k \in 1..Len(hits) |-> [title |-> hits[k].dest.title,
                                      start_page |-> hits[k].dest.page,
                                      level |-> chapter_level]]

\* a Destination whose resolution raises, then a sibling that is collected
C4_Witness ==
    /\ pc = "found"
    /\ chapter_level = 1
    /\ Len(chapter_starts) = 1
    /\ Len(outline) = 1
    /\ outline[1].kind = "list"
    /\ Len(outline[1].items) = 2
    /\ outline[1].items[1].kind = "Destination"
    /\ outline[1].items[1].res = "raise"
    /\ outline[1].items[2].kind = "Destination"

\* C5: the levels reported are exactly the depths that hold a Destination.
C5_AvailableLevels ==
    Printed("No bookmarks found at level") =>
        available_levels = LeafDepths(outline)

\* Destinations at two depths, none at the requested one
C5_Witness ==
    /\ Printed("Bookmarks found at levels")
    /\ available_levels = {0, 1}
    /\ chapter_level = MaxDepth + 1

\* C6 (as stated), for the runs that read an outline with a Destination at
\* the requested level: a run that has ended has printed the acknowledgment.
C6_EveryRunPrintsComplete ==
    /\ pc = "done"
    /\ Printed("Processing")
    /\ ~Printed("Error opening or parsing PDF")
    /\ chapter_level \in LeafDepths(outline)
    => Printed("Extraction complete.")

\* C6 (amended): every run ends; a run in which the walker found a chapter
\* start ends with the acknowledgment printed after the last chapter was
\* attempted, whatever fails on the way; a run in which it found none ends
\* without the acknowledgment.
C6_EndsAndAcknowledges ==
    <>(/\ pc = "done"
       /\ chapter_starts # <<>> <=> Printed("Extraction complete.")
       /\ Printed("Extraction complete.") => i = Len(chapter_starts))

\* a run that ended after a page failed to copy and a save failed
C6_Witness ==
    /\ pc = "done"
    /\ Printed("Extraction complete.")
    /\ Printed("Error saving")
    /\ Printed("Error adding page")
    /\ Printed("Warning: Could not get page")

\* C7: with no chapter start at the requested level nothing is written and
\* every level reported is one at which the walker finds a chapter start.
C7_ReportedLevelsSucceed ==
    Printed("No bookmarks found at level") =>
        /\ files = <<>>
        /\ available_levels = LeafDepths(outline)
        /\ \A l \in available_levels :
             find_chapter_bookmarks(outline, l, 0) # <<>>

\* C8: a non-empty title of disallowed characters only gives
\* "untitled_chapter", the empty title gives "untitled".
C8_Placeholders ==
    pc = "returned" =>
        /\ (name # <<>> /\ Range(name) \subseteq Disallowed
              => ret = <<"u","n","t","i","t","l","e","d","_",
                         "c","h","a","p","t","e","r">>)
        /\ (name = <<>> => ret = <<"u","n","t","i","t","l","e","d">>)

C10_FirstOfPageKept ==
    AfterDedup =>
        /\ {c.start_page : c \in Range(chapter_starts)}
             = {c.start_page : c \in Range(RawStarts)}
        /\ \A k \in 1..Len(chapter_starts) :
             LET first == CHOOSE a \in 1..Len(RawStarts) :
                            /\ RawStarts[a].start_page
                                 = chapter_starts[k].start_page
                            /\ \A b \in 1..(a - 1) :
                                 RawStarts[b].start_page
                                   # chapter_starts[k].start_page
             IN chapter_starts[k] = RawStarts[first]
        /\ \A a, b \in 1..Len(chapter_starts) :
             a # b => chapter_starts[a].start_page
                        # chapter_starts[b].start_page

\* two entries of different titles on one page, behind a later page
C10_Witness ==
    /\ AfterDedup
    /\ Len(RawStarts) = 3
    /\ RawStarts[2].start_page = RawStarts[3].start_page
    /\ RawStarts[2].title # RawStarts[3].title
    /\ RawStarts[1].start_page > RawStarts[2].start_page
    /\ Len(chapter_starts) = 2

====
